---- MODULE Spec2Model ----
(***************************************************************************)
(* A model of doogle's TF-IDF index (src/src/model.rs): the corpus index   *)
(* and its mutation operations, load-time reconciliation, the directory    *)
(* walk and the multi-threaded query engine, with the lexer of            *)
(* src/src/main.rs.                                                        *)
(***************************************************************************)
EXTENDS Integers, Sequences, FiniteSets, Bags, TLC

(***************************************************************************)
(* Bounds of the model.                                                    *)
(***************************************************************************)
MaxPaths == 2

Paths == 1..MaxPaths

\* Modification times are only stored and compared for equality
\* (load_from_file): two values give both outcomes of the comparison.
Times == {1, 2}

(***************************************************************************)
(* Characters.  A content is a sequence of one-character strings, as the   *)
(* &[char] the lexer reads.  The classes are those of char::is_whitespace, *)
(* char::is_numeric, char::is_alphabetic and char::is_alphanumeric on the  *)
(* characters used here.                                                   *)
(***************************************************************************)
Numeric == {"1", "2"}

Alphabetic == {"a", "b", "z", "A", "B", "Z"}

Alphanumeric == Alphabetic \cup Numeric

is_whitespace(c) == c = " "

is_numeric(c) == c \in Numeric

is_alphabetic(c) == c \in Alphabetic

\* char::to_uppercase on one character
to_uppercase(c) ==
    CASE c = "a" -> "A"
      [] c = "b" -> "B"
      [] c = "z" -> "Z"
      [] OTHER -> c

\* Model::clean_term: the term, upper-cased character by character
clean_term(term) == [i \in 1..Len(term) |-> to_uppercase(term[i])]

(***************************************************************************)
(* The lexer.  Its state is the rest of the content.                       *)
(***************************************************************************)
RECURSIVE trim_left(_)
trim_left(content) ==
    IF content # <<>> /\ is_whitespace(Head(content))
    THEN trim_left(Tail(content))
    ELSE content

\* Lexer::chop: the first n characters, and the rest
chop(content, n) ==
    [token |-> SubSeq(content, 1, n), rest |-> SubSeq(content, n + 1, Len(content))]

\* Lexer::chop_while: n grows while it is in the content and the predicate holds
\* (the predicate is given as the set of the characters it accepts)
chop_while(content, predicate) ==
    LET stops == {i \in 1..Len(content) : content[i] \notin predicate}
        n == IF stops = {} THEN Len(content)
             ELSE (CHOOSE i \in stops : \A j \in stops : i <= j) - 1
    IN chop(content, n)

\* Lexer::next_token: [some |-> FALSE] at the end of the content
next_token(content) ==
    LET c == trim_left(content) IN
    IF c = <<>> THEN [some |-> FALSE, token |-> <<>>, rest |-> <<>>]
    ELSE LET r == IF is_numeric(c[1]) THEN chop_while(c, Numeric)
                  ELSE IF is_alphabetic(c[1]) THEN chop_while(c, Alphanumeric)
                  ELSE chop(c, 1)
         IN [some |-> TRUE, token |-> r.token, rest |-> r.rest]

(***************************************************************************)
(* The index.  A Model is [dirs, tfi, idf, num_docs]; tfi maps a path to   *)
(* a Document [terms_count, last_modified, tf]; tf and idf map terms       *)
(* (upper-cased tokens) to counts.                                         *)
(***************************************************************************)
\* HashMap::insert
MapPut(map, k, v) == [x \in DOMAIN map \cup {k} |-> IF x = k THEN v ELSE map[x]]

\* HashMap::remove
MapDel(map, k) == [x \in DOMAIN map \ {k} |-> map[x]]

\* Model::new
NewModel == [dirs |-> {}, tfi |-> <<>>, idf |-> <<>>, num_docs |-> 0]

\* remove_doc without its loop over doc.tf.keys(): idf is left as it was
remove_doc_keeps_idf(model, doc_path) ==
    IF doc_path \in DOMAIN model.tfi
    THEN [model EXCEPT
            !.tfi = MapDel(model.tfi, doc_path),
            !.num_docs = model.num_docs - 1]
    ELSE model

\* remove_doc without "self.num_docs -= 1"
remove_doc_keeps_num(model, doc_path) ==
    IF doc_path \in DOMAIN model.tfi
    THEN LET doc == model.tfi[doc_path] IN
         [model EXCEPT
            !.tfi = MapDel(model.tfi, doc_path),
            !.idf = [t \in DOMAIN model.idf |->
                        IF t \in DOMAIN doc.tf THEN model.idf[t] - 1 ELSE model.idf[t]]]
    ELSE model

\* remove_doc lowering a term's counter once for each of the document's tokens
\* of that term instead of once
remove_doc_per_token(model, doc_path) ==
    IF doc_path \in DOMAIN model.tfi
    THEN LET doc == model.tfi[doc_path] IN
         [model EXCEPT
            !.tfi = MapDel(model.tfi, doc_path),
            !.num_docs = model.num_docs - 1,
            !.idf = [t \in DOMAIN model.idf |->
                        IF t \in DOMAIN doc.tf THEN model.idf[t] - doc.tf[t]
                        ELSE model.idf[t]]]
    ELSE model

\* Model::remove_doc
remove_doc(model, doc_path) ==
    IF doc_path \in DOMAIN model.tfi
    THEN LET doc == model.tfi[doc_path] IN
         [model EXCEPT
            !.tfi = MapDel(model.tfi, doc_path),
            !.num_docs = model.num_docs - 1,
            !.idf = [t \in DOMAIN model.idf |->
                        IF t \in DOMAIN doc.tf THEN model.idf[t] - 1 ELSE model.idf[t]]]
    ELSE model

\* the token loop with a term counted in tf at its first token only
RECURSIVE count_terms_once(_, _, _)
count_terms_once(content, tf, terms_count) ==
    LET tok == next_token(content) IN
    IF ~tok.some THEN [tf |-> tf, terms_count |-> terms_count]
    ELSE LET term == clean_term(tok.token) IN
         count_terms_once(tok.rest,
                          IF term \in DOMAIN tf THEN tf ELSE MapPut(tf, term, 1),
                          terms_count + 1)

\* The token loop of Model::add_doc: the tf table and terms_count of a content
RECURSIVE count_terms(_, _, _)
count_terms(content, tf, terms_count) ==
    LET tok == next_token(content) IN
    IF ~tok.some THEN [tf |-> tf, terms_count |-> terms_count]
    ELSE LET term == clean_term(tok.token) IN
         count_terms(tok.rest,
                     IF term \in DOMAIN tf
                     THEN [tf EXCEPT ![term] = @ + 1]
                     ELSE MapPut(tf, term, 1),
                     terms_count + 1)

\* index_doc raising idf once for each token instead of once for each term
index_doc_per_token(model, doc_path, content, last_modified) ==
    LET counted == count_terms(content, <<>>, 0)
        tf == counted.tf
    IN [model EXCEPT
          !.idf = [t \in DOMAIN model.idf \cup DOMAIN tf |->
                     IF t \in DOMAIN tf
                     THEN (IF t \in DOMAIN model.idf THEN model.idf[t] + tf[t] ELSE tf[t])
                     ELSE model.idf[t]],
          !.tfi = MapPut(model.tfi, doc_path,
                         [terms_count |-> counted.terms_count,
                          last_modified |-> last_modified,
                          tf |-> tf]),
          !.num_docs = model.num_docs + 1]

\* Model::add_doc after its call of remove_doc: the content is counted, idf is
\* raised once for each term of the new table, the document is inserted
index_doc(model, doc_path, content, last_modified) ==
    LET counted == count_terms(content, <<>>, 0)
        tf == counted.tf
    IN [model EXCEPT
          !.idf = [t \in DOMAIN model.idf \cup DOMAIN tf |->
                     IF t \in DOMAIN tf
                     THEN (IF t \in DOMAIN model.idf THEN model.idf[t] + 1 ELSE 1)
                     ELSE model.idf[t]],
          !.tfi = MapPut(model.tfi, doc_path,
                         [terms_count |-> counted.terms_count,
                          last_modified |-> last_modified,
                          tf |-> tf]),
          !.num_docs = model.num_docs + 1]

\* add_doc without its first line, the call of remove_doc
add_doc_no_remove(model, doc_path, content, last_modified) ==
    index_doc(model, doc_path, content, last_modified)

\* Model::add_doc
add_doc(model, doc_path, content, last_modified) ==
    index_doc(remove_doc(model, doc_path), doc_path, content, last_modified)

(***************************************************************************)
(* f32.  A score is an f32 that is zero or positive and normal: [m, e] is  *)
(* m * 2^e with a 24-bit significand m in 2^23 .. 2^24 - 1, and F32Zero is *)
(* 0.  Every operation rounds to nearest, ties to even, as the hardware    *)
(* does, so that the order of the additions shows in the result.           *)
(***************************************************************************)
TwoTo23 == 8388608

TwoTo24 == 16777216

F32Zero == [m |-> 0, e |-> 0]

\* q, the quotient of a division by d that left the remainder r, rounded to
\* nearest, ties to even
RoundEven(q, r, d) ==
    IF 2 * r > d \/ (2 * r = d /\ q % 2 = 1) THEN q + 1 ELSE q

\* a significand that rounding carried up to 2^24 is 2^23 one exponent higher
Normalize(m, e) ==
    IF m = TwoTo24 THEN [m |-> TwoTo23, e |-> e + 1] ELSE [m |-> m, e |-> e]

\* a doubled k times until a / b has 24 significant bits before the point
RECURSIVE DivShift(_, _, _)
DivShift(a, b, k) ==
    IF a >= b * TwoTo23 THEN [n |-> a, k |-> k] ELSE DivShift(2 * a, b, k + 1)

\* the power of 2, from u on, that leaves a at most 24 significant bits
RECURSIVE Ulp(_, _)
Ulp(a, u) == IF a \div u < TwoTo24 THEN u ELSE Ulp(a, 2 * u)

\* "a as f32" for a count 0 <= a < 2^30, as the integer it stands for: a itself
\* below 2^24, a rounded to 24 significant bits from there on
as_f32(a) ==
    LET u == Ulp(a, 1) IN RoundEven(a \div u, a % u, u) * u

\* (a as f32) / (b as f32) for counts 0 <= a < 2^30, 0 < b < 128 (b as f32 is
\* exact), a / b < 2^24: a is converted, which rounds it from 2^24 on, and the
\* quotient of the two f32 is rounded
F32Div(a, b) ==
    IF a = 0 THEN F32Zero
    ELSE LET s == DivShift(as_f32(a), as_f32(b), 0)
         IN Normalize(RoundEven(s.n \div as_f32(b), s.n % as_f32(b), as_f32(b)), -s.k)

\* x * y: the 48-bit product of the significands from 12-bit halves, rounded
F32Mul(x, y) ==
    IF x.m = 0 \/ y.m = 0 THEN F32Zero
    ELSE LET a == x.m \div 4096
             b == x.m % 4096
             c == y.m \div 4096
             d == y.m % 4096
             mid == a * d + b * c
             lowsum == (mid % 4096) * 4096 + b * d
             low == lowsum % TwoTo24
             hi == a * c + mid \div 4096 + lowsum \div TwoTo24
         IN IF hi >= TwoTo23
            THEN Normalize(RoundEven(hi, low, TwoTo24), x.e + y.e + 24)
            ELSE Normalize(RoundEven(2 * hi + low \div TwoTo23, low % TwoTo23, TwoTo23),
                           x.e + y.e + 23)

\* n with its last bit set when bits were lost below it (the sticky bit)
Sticky(n, lost) == IF lost /\ n % 2 = 0 THEN n + 1 ELSE n

\* x + y: the smaller operand is shifted to the exponent of the larger with
\* guard, round and sticky bits, and the sum is rounded
F32Add(x, y) ==
    IF x.m = 0 THEN y
    ELSE IF y.m = 0 THEN x
    ELSE LET big == IF x.e >= y.e THEN x ELSE y
             small == IF x.e >= y.e THEN y ELSE x
             d == big.e - small.e
         IN IF d > 26 THEN big
            ELSE LET shifted == Sticky((small.m * 8) \div (2 ^ d),
                                       (small.m * 8) % (2 ^ d) # 0)
                     sum == big.m * 8 + shifted
                     carried == sum >= TwoTo24 * 8
                     s == IF carried THEN Sticky(sum \div 2, sum % 2 = 1) ELSE sum
                 IN Normalize(RoundEven(s \div 8, s % 8, 8),
                              IF carried THEN big.e + 1 ELSE big.e)

\* f32::log10 of a quotient n / v of up to four documents: what a build can
\* return.  The precision of f32::log10 depends on the platform's libm: the
\* result is one of the two f32 next to the real logarithm, and 0 for
\* log10(1), which is exact.
Log10Outcomes(x) ==
    CASE x = [m |-> 8388608, e |-> -23] -> {F32Zero}
      [] x = [m |-> 8388608, e |-> -22] ->
            {[m |-> 10100890, e |-> -25], [m |-> 10100891, e |-> -25]}
      [] x = [m |-> 12582912, e |-> -22] ->
            {[m |-> 16009532, e |-> -25], [m |-> 16009533, e |-> -25]}
      [] x = [m |-> 12582912, e |-> -23] ->
            {[m |-> 11817284, e |-> -26], [m |-> 11817285, e |-> -26]}
      [] x = [m |-> 8388608, e |-> -21] ->
            {[m |-> 10100890, e |-> -24], [m |-> 10100891, e |-> -24]}
      [] x = [m |-> 11184811, e |-> -23] ->
            {[m |-> 16768995, e |-> -27], [m |-> 16768996, e |-> -27]}

\* the quotients num_docs / v that get_idf can form: 0 < v <= num_docs
Quotients ==
    {F32Div(nv[1], nv[2]) :
        nv \in {c \in (1..MaxPaths) \X (1..MaxPaths) : c[2] <= c[1]}}

\* the log10 of the builds: one outcome for each quotient
Log10Builds ==
    {f \in [Quotients -> UNION {Log10Outcomes(q) : q \in Quotients}] :
        \A q \in Quotients : f[q] \in Log10Outcomes(q)}

\* what all builds agree on: log10(1) is 0.  It stands for the build where
\* log10 is called on no other quotient.
ExactBuild == [q \in {F32Div(1, 1)} |-> F32Zero]

VARIABLE
    libm_log10      \* the f32::log10 of the build the program runs as

\* f32::log10
F32Log10(x) == libm_log10[x]

\* the distance of two positive f32 in units of the last place of the smaller,
\* 2^24 when they are more than one exponent apart
UlpDistance(x, y) ==
    LET big == IF x.e >= y.e THEN x ELSE y
        small == IF x.e >= y.e THEN y ELSE x
        d == big.e - small.e
    IN IF x.m = 0 \/ y.m = 0 THEN (IF x = y THEN 0 ELSE TwoTo24)
       ELSE IF d = 0 THEN (IF x.m >= y.m THEN x.m - y.m ELSE y.m - x.m)
       ELSE IF d = 1 THEN 2 * big.m - small.m
       ELSE TwoTo24

(***************************************************************************)
(* Scoring and the query engine's functions.  A QueryResult maps paths to  *)
(* f32 scores.                                                             *)
(***************************************************************************)
Min(a, b) == IF a <= b THEN a ELSE b

Max(a, b) == IF a >= b THEN a ELSE b

\* get_idf with log10(2) for a term that no document holds
get_idf_absent_positive(model, term) ==
    IF term \in DOMAIN model.idf /\ model.idf[term] > 0
    THEN F32Log10(F32Div(model.num_docs, model.idf[term]))
    ELSE F32Log10(F32Div(2, 1))

\* get_idf without ".log10()": the ratio n / v itself
get_idf_no_log(model, term) ==
    IF term \in DOMAIN model.idf /\ model.idf[term] > 0
    THEN F32Div(model.num_docs, model.idf[term])
    ELSE F32Zero

\* Model::get_idf
get_idf(model, term) ==
    IF term \in DOMAIN model.idf /\ model.idf[term] > 0
    THEN F32Log10(F32Div(model.num_docs, model.idf[term]))
    ELSE F32Zero

\* Model::get_tf_doc
get_tf_doc(model, doc_path, term) ==
    IF doc_path \in DOMAIN model.tfi /\ model.tfi[doc_path].terms_count > 0
    THEN LET doc == model.tfi[doc_path] IN
         IF term \in DOMAIN doc.tf
         THEN F32Div(doc.tf[term], doc.terms_count)
         ELSE F32Zero
    ELSE F32Zero

\* process_query_term without the "continue" on tf_value == 0.
process_query_term_no_skip(model, raw_term) ==
    LET term == clean_term(raw_term)
        idf_value == get_idf(model, term)
    IN IF idf_value = F32Zero THEN <<>>
       ELSE [path \in DOMAIN model.tfi |->
                F32Mul(get_tf_doc(model, path, term), idf_value)]

\* Model::process_query_term
process_query_term(model, raw_term) ==
    LET term == clean_term(raw_term)
        idf_value == get_idf(model, term)
    IN IF idf_value = F32Zero THEN <<>>
       ELSE [path \in {p \in DOMAIN model.tfi : get_tf_doc(model, p, term) # F32Zero} |->
                F32Mul(get_tf_doc(model, path, term), idf_value)]

\* Model::process_query_term: the paths whose table get_tf_doc looks into
scanned_paths(model, raw_term) ==
    IF get_idf(model, clean_term(raw_term)) = F32Zero THEN {} ELSE DOMAIN model.tfi

\* combine_results with "results.insert(doc, tfidf)" on both arms of the match
combine_results_overwrites(results, result) ==
    [doc \in DOMAIN results \cup DOMAIN result |->
        IF doc \in DOMAIN result THEN result[doc] ELSE results[doc]]

\* combine_results
combine_results(results, result) ==
    [doc \in DOMAIN results \cup DOMAIN result |->
        IF doc \in DOMAIN result
        THEN (IF doc \in DOMAIN results
              THEN F32Add(results[doc], result[doc])
              ELSE result[doc])
        ELSE results[doc]]

\* the start of task i with "* threads_min_charge" left out
task_start_unscaled(i, threads_min_charge, overcharged_threads) ==
    Min(i, overcharged_threads) * (threads_min_charge + 1)
      + (IF i > overcharged_threads THEN i - overcharged_threads ELSE 0)

\* dispatch_tasks: the start of task i
task_start(i, threads_min_charge, overcharged_threads) ==
    Min(i, overcharged_threads) * (threads_min_charge + 1)
      + (IF i > overcharged_threads THEN i - overcharged_threads ELSE 0)
          * threads_min_charge

\* dispatch_tasks: the charge of task i
task_charge(i, threads_min_charge, overcharged_threads) ==
    IF i < overcharged_threads THEN threads_min_charge + 1 ELSE threads_min_charge

\* dispatch_tasks with threads_count.max(1) only, no .min(tasks)
dispatch_tasks_no_min(threads_count, tasks) ==
    LET clamped == Max(threads_count, 1)
        threads_min_charge == tasks \div clamped
        overcharged_threads == tasks % clamped
    IN [panic |-> FALSE,
        dispatched |->
           [k \in 1..clamped |->
               <<task_start(k - 1, threads_min_charge, overcharged_threads),
                 task_charge(k - 1, threads_min_charge, overcharged_threads)>>]]

\* dispatch_tasks: the Vec of (start, charge), or a panic when the clamped
\* threads_count is 0 and "tasks / threads_count" divides by zero
dispatch_tasks(threads_count, tasks) ==
    LET clamped == Min(Max(threads_count, 1), tasks) IN
    IF clamped = 0 THEN [panic |-> TRUE, dispatched |-> <<>>]
    ELSE LET threads_min_charge == tasks \div clamped
             overcharged_threads == tasks % clamped
         IN [panic |-> FALSE,
             dispatched |->
                [k \in 1..clamped |->
                    <<task_start(k - 1, threads_min_charge, overcharged_threads),
                      task_charge(k - 1, threads_min_charge, overcharged_threads)>>]]

\* str::split_whitespace: the maximal runs of characters that are not whitespace
RECURSIVE split_whitespace(_)
split_whitespace(text) ==
    LET t == trim_left(text) IN
    IF t = <<>> THEN <<>>
    ELSE LET word == chop_while(t, Alphanumeric \cup {"."})
         IN <<word.token>> \o split_whitespace(word.rest)

\* request[start..].iter().take(thread_charge) without the take
thread_terms_no_take(request, start, thread_charge) ==
    SubSeq(request, start + 1, Len(request))

\* process_query: request[start..].iter().take(thread_charge), for start <= len
thread_terms(request, start, thread_charge) ==
    SubSeq(request, start + 1, Min(start + thread_charge, Len(request)))

\* process_query's join arm that merges whatever the thread had summed
join_result_keeps_partial(results, thread) ==
    combine_results(results, thread.results)

\* process_query: the match on result_thread.join()
join_result(results, thread) ==
    IF thread.status = "finished"
    THEN combine_results(results, thread.results)
    ELSE results

\* main.rs, Model::process_query: the single pass over the terms
RECURSIVE sequential_terms(_, _, _)
sequential_terms(model, request, results) ==
    IF request = <<>> THEN results
    ELSE LET term == clean_term(Head(request))
             idf_value == get_idf(model, term)
             hits == IF idf_value = F32Zero THEN {}
                     ELSE {p \in DOMAIN model.tfi : get_tf_doc(model, p, term) # F32Zero}
         IN sequential_terms(model, Tail(request),
               [path \in DOMAIN results \cup hits |->
                   IF path \in hits
                   THEN LET tfidf_value == F32Mul(get_tf_doc(model, path, term), idf_value)
                        IN IF path \in DOMAIN results
                           THEN F32Add(results[path], tfidf_value)
                           ELSE tfidf_value
                   ELSE results[path]])

\* main.rs, Model::process_query
sequential_process_query(model, request_text) ==
    sequential_terms(model, split_whitespace(request_text), <<>>)

(***************************************************************************)
(* Inputs.  Contents are what parse_xml_file can return for a file; they   *)
(* cover the empty document, case folding, a repeated term, a numeric run  *)
(* followed by letters and a punctuation character.                        *)
(***************************************************************************)
Contents ==
    { <<>>,
      <<"A", ".", "b">>,
      <<"2", "b", " ", "B", " ", "b">> }

MaxTerms == 3
MaxThreads == 3

\* the words of a request: a term of two documents, a term of one, a term of none
RawTerms == {<<"b">>, <<"2">>, <<"z">>}

\* the words joined by single spaces
RECURSIVE JoinWords(_)
JoinWords(words) ==
    IF words = <<>> THEN <<>>
    ELSE IF Len(words) = 1 THEN words[1]
    ELSE words[1] \o <<" ">> \o JoinWords(Tail(words))

\* request texts: up to MaxTerms words, and texts of whitespace only
RequestTexts ==
    {JoinWords(words) : words \in UNION {[1..n -> RawTerms] : n \in 0..MaxTerms}}
      \cup {<<" ">>, <<" ", " ">>}

NoFile == <<"NoFile">>

\* the index of a corpus: add_doc for the files of paths k..MaxPaths, from a model
RECURSIVE Corpus(_, _, _)
Corpus(files, k, model) ==
    IF k > MaxPaths THEN model
    ELSE Corpus(files, k + 1,
                IF files[k] = NoFile THEN model ELSE add_doc(model, k, files[k], 1))

\* the indexes a query runs on: those of the corpora, and those after the
\* removal of the first document (its terms keep an idf entry, possibly 0)
QueryModels ==
    LET built == {Corpus(files, 1, NewModel) : files \in [Paths -> Contents \cup {NoFile}]}
    IN built \cup {remove_doc(m, 1) : m \in built}

VARIABLES
    model,          \* the Model the program holds
    pc,             \* "idle", or the phase of load_from_file: "invalidate", "update"
    invalid_paths,  \* load_from_file's invalid_paths, what is left of it
    updated_paths,  \* load_from_file's updated_paths, what is left of it
    last_call,      \* the last call of add_doc or remove_doc: its arguments, idf and
                    \* num_docs as they were before it (pre), whether the path was
                    \* indexed before it (known) and how it follows the call before
                    \* it (after); op is "none" before any call and once
                    \* load_from_file has run
    request_text,   \* process_query's request
    threads_count,  \* process_query's threads_count
    qpc,            \* process_query's position: "idle", "start", "dispatch", "spawn", "join"
                    \* (at the head of the join loop), "joining" (in join()),
                    \* "returned", "panicked"
    request,        \* process_query's request, split
    dispatched,     \* process_query's dispatched
    threads,        \* the threads spawned, in order: [given, terms, results, status];
                    \* given is the terms the closure was created with, terms
                    \* what is left of them
    result_threads, \* process_query's result_threads: indexes into threads
    results,        \* process_query's results
    i,              \* process_query's i
    result_thread,  \* process_query's result_thread, the handle popped: an index
                    \* into threads, 0 outside a turn of the join loop
    last_walk,      \* the call of add_dir that main made: the directory tree it
                    \* found and what it returned; called is FALSE before it
    load            \* what the load_from_file under way has met: the model it read
                    \* back (persisted), what fs::metadata answered for each of its
                    \* paths (metadata) and what parse_xml_file returned for the
                    \* paths updated so far, in order (parsed)

index_vars == <<model, pc, invalid_paths, updated_paths, last_call, load>>

query_vars == <<request_text, threads_count, qpc, request, dispatched, threads,
                result_threads, results, i, result_thread, libm_log10>>

vars == <<model, pc, invalid_paths, updated_paths, last_call,
          request_text, threads_count, qpc, request, dispatched, threads,
          result_threads, results, i, result_thread, libm_log10, last_walk, load>>

\* idf and num_docs of a model: what the counting claims compare
Counters(m) == [idf |-> m.idf, num_docs |-> m.num_docs]

NoCall == [op |-> "none", path |-> 0, content |-> <<>>, time |-> 0,
           pre |-> Counters(NewModel), known |-> FALSE, after |-> "none"]

\* The record of a call made now.  after is "insert" or "replace" for a
\* remove_doc that follows an add_doc of the same path (which was not, or was,
\* indexed before that add_doc), "same" for an add_doc that follows an add_doc
\* with the same arguments, and "none" otherwise.
Call(op, doc_path, content, last_modified) ==
    [op |-> op, path |-> doc_path, content |-> content, time |-> last_modified,
     pre |-> Counters(model),
     known |-> doc_path \in DOMAIN model.tfi,
     after |-> IF last_call.op = "add_doc" /\ last_call.path = doc_path
               THEN IF op = "remove_doc"
                    THEN (IF last_call.known THEN "replace" ELSE "insert")
                    ELSE IF last_call.content = content /\ last_call.time = last_modified
                         THEN "same"
                         ELSE "none"
               ELSE "none"]

Unreadable == [unreadable |-> TRUE]

NoWalk == [called |-> FALSE, dir |-> Unreadable, result |-> "none"]

NoLoad == [persisted |-> NewModel, metadata |-> <<>>, parsed |-> <<>>]

\* no load_from_file under way, no call recorded
IndexIdle ==
    /\ pc = "idle"
    /\ invalid_paths = <<>>
    /\ updated_paths = <<>>
    /\ last_call = NoCall
    /\ last_walk = NoWalk
    /\ load = NoLoad

\* no query under way: log10 is not called
QueryIdle ==
    /\ request_text = <<>>
    /\ threads_count = 0
    /\ qpc = "idle"
    /\ request = <<>>
    /\ dispatched = <<>>
    /\ threads = <<>>
    /\ result_threads = <<>>
    /\ results = <<>>
    /\ i = 0
    /\ result_thread = 0
    /\ libm_log10 = ExactBuild

(***************************************************************************)
(* The index: calls of add_doc and remove_doc, and load_from_file.         *)
(***************************************************************************)
Init ==
    /\ model = NewModel
    /\ IndexIdle
    /\ QueryIdle

\* a call of Model::add_doc
AddDoc ==
    /\ pc = "idle"
    /\ \E doc_path \in Paths, content \in Contents, last_modified \in Times :
          /\ model' = add_doc(model, doc_path, content, last_modified)
          /\ last_call' = Call("add_doc", doc_path, content, last_modified)
    /\ UNCHANGED <<pc, invalid_paths, updated_paths, load>>
    /\ UNCHANGED <<query_vars, last_walk>>

\* a call of Model::remove_doc
RemoveDoc ==
    /\ pc = "idle"
    /\ \E doc_path \in Paths :
          /\ model' = remove_doc(model, doc_path)
          /\ last_call' = Call("remove_doc", doc_path, <<>>, 0)
    /\ UNCHANGED <<pc, invalid_paths, updated_paths, load>>
    /\ UNCHANGED <<query_vars, last_walk>>

\* The sequences that list the elements of a set once each, in any order
Orders(S) == {s \in [1..Cardinality(S) -> S] : \A x \in S : \E k \in DOMAIN s : s[k] = x}

Missing == 0

\* the scan with no path pushed to invalid_paths
scan_invalid_none(m, metadata) == {}

\* load_from_file's scan: the paths pushed to invalid_paths
scan_invalid(m, metadata) == {p \in DOMAIN m.tfi : metadata[p] = Missing}

\* the scan pushing the stored time in place of the file's
scan_updated_stored_time(m, metadata) ==
    {<<m.tfi[p].last_modified, p>> : p \in
        {q \in DOMAIN m.tfi :
            /\ metadata[q] # Missing
            /\ metadata[q] # m.tfi[q].last_modified}}

\* the scan pushing, too, the paths that the index does not hold
scan_updated_discovers(m, metadata) ==
    {<<metadata[p], p>> : p \in
        {q \in DOMAIN m.tfi :
            /\ metadata[q] # Missing
            /\ metadata[q] # m.tfi[q].last_modified}}
      \cup {<<1, p>> : p \in Paths \ DOMAIN m.tfi}

\* load_from_file's scan: the pairs pushed to updated_paths
scan_updated(m, metadata) ==
    {<<metadata[p], p>> : p \in
        {q \in DOMAIN m.tfi :
            /\ metadata[q] # Missing
            /\ metadata[q] # m.tfi[q].last_modified}}

\* load_from_file up to the end of its scan of model.tfi: the persisted model is
\* read back, and fs::metadata answers for each path with a modification time
\* or an error.  The HashMap is iterated in an arbitrary order.
LoadScan ==
    /\ pc = "idle"
    /\ \E metadata \in [DOMAIN model.tfi -> Times \cup {Missing}] :
          /\ \E inv \in Orders(scan_invalid(model, metadata)) :
                invalid_paths' = inv
          /\ \E upd \in Orders(scan_updated(model, metadata)) :
                updated_paths' = upd
          /\ load' = [persisted |-> model, metadata |-> metadata, parsed |-> <<>>]
    /\ pc' = "invalidate"
    /\ last_call' = NoCall
    /\ UNCHANGED model
    /\ UNCHANGED <<query_vars, last_walk>>

\* one turn of the loop over invalid_paths
LoadInvalidate ==
    /\ pc = "invalidate"
    /\ invalid_paths # <<>>
    /\ model' = remove_doc(model, Head(invalid_paths))
    /\ invalid_paths' = Tail(invalid_paths)
    /\ UNCHANGED <<pc, updated_paths, last_call, load>>
    /\ UNCHANGED <<query_vars, last_walk>>

\* the loop over invalid_paths ends
LoadInvalidated ==
    /\ pc = "invalidate"
    /\ invalid_paths = <<>>
    /\ pc' = "update"
    /\ UNCHANGED <<model, invalid_paths, updated_paths, last_call, load>>
    /\ UNCHANGED <<query_vars, last_walk>>

ParseErr == <<"Err">>

\* the body of 'update_iter with the terms of the stale entry taken out of idf
\* when parse_xml_file fails, the entry and num_docs left as they are
update_doc_uncounts_stale(m, doc_path, parsed, last_modified) ==
    IF parsed = ParseErr
    THEN [m EXCEPT !.idf = remove_doc(m, doc_path).idf]
    ELSE add_doc(m, doc_path, parsed, last_modified)

\* load_from_file, the body of 'update_iter: continue when parse_xml_file fails
update_doc(m, doc_path, parsed, last_modified) ==
    IF parsed = ParseErr
    THEN m
    ELSE add_doc(m, doc_path, parsed, last_modified)

\* one turn of the loop over updated_paths: parse_xml_file fails or returns a content
LoadUpdate ==
    /\ pc = "update"
    /\ updated_paths # <<>>
    /\ \E parsed \in Contents \cup {ParseErr} :
          /\ model' = update_doc(model, Head(updated_paths)[2], parsed,
                                 Head(updated_paths)[1])
          /\ load' = [load EXCEPT !.parsed =
                         Append(@, [path |-> Head(updated_paths)[2], parsed |-> parsed])]
    /\ updated_paths' = Tail(updated_paths)
    /\ UNCHANGED <<pc, invalid_paths, last_call>>
    /\ UNCHANGED <<query_vars, last_walk>>

\* load_from_file returns the model
LoadDone ==
    /\ pc = "update"
    /\ updated_paths = <<>>
    /\ pc' = "idle"
    /\ load' = NoLoad
    /\ UNCHANGED <<model, invalid_paths, updated_paths, last_call>>
    /\ UNCHANGED <<query_vars, last_walk>>

Next ==
    \/ AddDoc
    \/ RemoveDoc
    \/ LoadScan
    \/ LoadInvalidate
    \/ LoadInvalidated
    \/ LoadUpdate
    \/ LoadDone

Spec == Init /\ [][Next]_vars

(***************************************************************************)
(* The query engine: one call of process_query on an index that does not  *)
(* change, its threads interleaved.                                        *)
(***************************************************************************)
\* process_query is entered with a request and a threads_count
QueryEntry ==
    /\ IndexIdle
    /\ request_text \in RequestTexts
    /\ threads_count \in 0..MaxThreads
    /\ qpc = "start"
    /\ request = <<>>
    /\ dispatched = <<>>
    /\ threads = <<>>
    /\ result_threads = <<>>
    /\ results = <<>>
    /\ i = 0
    /\ result_thread = 0

\* the call runs on any of the indexes, as any of the builds
QueryInit ==
    /\ QueryEntry
    /\ model \in QueryModels
    /\ libm_log10 \in Log10Builds

\* process_query's first statement: the request is split into its words
Split ==
    /\ qpc = "start"
    /\ request' = split_whitespace(request_text)
    /\ qpc' = "dispatch"
    /\ UNCHANGED <<request_text, threads_count, dispatched, threads, result_threads,
                   results, i, result_thread, libm_log10>>
    /\ UNCHANGED <<index_vars, last_walk>>

\* process_query up to its first loop: the words are dispatched
Dispatch ==
    /\ qpc = "dispatch"
    /\ LET d == dispatch_tasks(threads_count, Len(request)) IN
          /\ dispatched' = d.dispatched
          /\ qpc' = IF d.panic THEN "panicked" ELSE "spawn"
    /\ UNCHANGED <<request_text, threads_count, request, threads, result_threads,
                   results, i, result_thread, libm_log10>>
    /\ UNCHANGED <<index_vars, last_walk>>

\* one turn of the loop over dispatched: a thread is spawned with its terms
Spawn ==
    /\ qpc = "spawn"
    /\ Len(threads) < Len(dispatched)
    /\ LET task == dispatched[Len(threads) + 1] IN
          IF task[1] > Len(request)
          THEN /\ qpc' = "panicked"
               /\ UNCHANGED <<threads, result_threads>>
          ELSE /\ threads' = Append(threads,
                                    [given |-> thread_terms(request, task[1], task[2]),
                                     terms |-> thread_terms(request, task[1], task[2]),
                                     results |-> <<>>,
                                     status |-> "running"])
               /\ result_threads' = Append(result_threads, Len(threads) + 1)
               /\ UNCHANGED qpc
    /\ UNCHANGED <<request_text, threads_count, request, dispatched, results, i,
                   result_thread, libm_log10>>
    /\ UNCHANGED <<index_vars, last_walk>>

\* the loop over dispatched ends: "let mut i = request.len()"
Spawned ==
    /\ qpc = "spawn"
    /\ Len(threads) = Len(dispatched)
    /\ i' = Len(request)
    /\ qpc' = "join"
    /\ UNCHANGED <<request_text, threads_count, request, dispatched, threads,
                   result_threads, results, result_thread, libm_log10>>
    /\ UNCHANGED <<index_vars, last_walk>>

\* a thread takes its next term, or returns its results when none is left
WorkerStep ==
    /\ \E w \in DOMAIN threads :
          /\ threads[w].status = "running"
          /\ threads' =
               IF threads[w].terms = <<>>
               THEN [threads EXCEPT ![w].status = "finished"]
               ELSE [threads EXCEPT
                       ![w].results = combine_results(@,
                                         process_query_term(model, Head(threads[w].terms))),
                       ![w].terms = Tail(@)]
    /\ UNCHANGED <<request_text, threads_count, qpc, request, dispatched,
                   result_threads, results, i, result_thread, libm_log10>>
    /\ UNCHANGED <<index_vars, last_walk>>

\* a thread fails to complete: it ends abnormally and join() will return Err
WorkerFail ==
    /\ \E w \in DOMAIN threads :
          /\ threads[w].status = "running"
          /\ threads' = [threads EXCEPT ![w].status = "failed"]
    /\ UNCHANGED <<request_text, threads_count, qpc, request, dispatched,
                   result_threads, results, i, result_thread, libm_log10>>
    /\ UNCHANGED <<index_vars, last_walk>>

\* the head of a turn of the join loop: the last handle is popped, "i -= 1"
Pop ==
    /\ qpc = "join"
    /\ result_threads # <<>>
    /\ result_thread' = result_threads[Len(result_threads)]
    /\ result_threads' = SubSeq(result_threads, 1, Len(result_threads) - 1)
    /\ i' = i - 1
    /\ qpc' = "joining"
    /\ UNCHANGED <<request_text, threads_count, request, dispatched, threads, results,
                   libm_log10>>
    /\ UNCHANGED <<index_vars, last_walk>>

\* the rest of the turn: join() returns once the thread of the handle has
\* ended, and its results are merged unless it failed
Join ==
    /\ qpc = "joining"
    /\ LET thread == threads[result_thread] IN
          /\ thread.status # "running"
          /\ results' = join_result(results, thread)
    /\ result_thread' = 0
    /\ qpc' = "join"
    /\ UNCHANGED <<request_text, threads_count, request, dispatched, threads,
                   result_threads, i, libm_log10>>
    /\ UNCHANGED <<index_vars, last_walk>>

\* process_query returns results
Return ==
    /\ qpc = "join"
    /\ result_threads = <<>>
    /\ qpc' = "returned"
    /\ UNCHANGED <<request_text, threads_count, request, dispatched, threads,
                   result_threads, results, i, result_thread, libm_log10>>
    /\ UNCHANGED <<index_vars, last_walk>>

QueryNext ==
    \/ Split
    \/ Dispatch
    \/ Spawn
    \/ Spawned
    \/ WorkerStep
    \/ WorkerFail
    \/ Pop
    \/ Join
    \/ Return

SpecQuery == QueryInit /\ [][QueryNext]_vars

\* process_query runs on: the calling thread goes from one statement to the
\* next, and the scheduler lets every thread that can run take its next step
QueryFairness ==
    /\ WF_vars(Split)
    /\ WF_vars(Dispatch)
    /\ WF_vars(Spawn)
    /\ WF_vars(Spawned)
    /\ WF_vars(WorkerStep)
    /\ WF_vars(Pop)
    /\ WF_vars(Join)
    /\ WF_vars(Return)

\* one index for the runs to their end: every document has the same content,
\* so that the terms of a request are in every document or in none, and the
\* only quotient of get_idf is 1, whose log10 is 0 in every build
FairModel ==
    Corpus([p \in Paths |-> <<"2", "b", " ", "B", " ", "b">>], 1, NewModel)

QueryFairInit ==
    /\ QueryEntry
    /\ model = FairModel
    /\ libm_log10 = ExactBuild

SpecQueryFair == QueryFairInit /\ [][QueryNext]_vars /\ QueryFairness

(***************************************************************************)
(* The walk: main creates the model and calls add_dir once.  A directory   *)
(* is Unreadable (fs::read_dir fails) or lists entries; the path of an     *)
(* entry is the path of its directory followed by its position.            *)
(***************************************************************************)
MaxEntries == 2
MaxDepth == 1

NoExt == "none"

\* the entries that are not directories: an entry that read_dir yields as Err,
\* an entry whose file_type fails, and files, with their extension, their
\* modification time (Missing when metadata or modified fails) and what
\* parse_xml_file returns for them
FileEntries ==
    {[kind |-> "entry_err"], [kind |-> "type_err"]}
      \cup {f \in [kind : {"file"}, ext : {"xhtml", "txt", NoExt},
                   modified : {1, Missing}, parsed : Contents \cup {ParseErr}] :
               f.ext # "xhtml" => f.parsed = ParseErr}

\* the sequences of at most MaxEntries elements of S
Listings(S) == UNION {[1..n -> S] : n \in 0..MaxEntries}

\* the directories with at most depth levels of directories below them
RECURSIVE Dirs(_)
Dirs(depth) ==
    {Unreadable}
      \cup {[entries |-> l] :
              l \in Listings(IF depth = 0 THEN FileEntries
                             ELSE FileEntries
                                    \cup {[kind |-> "dir", dir |-> d] : d \in Dirs(depth - 1)})}

\* Model::add_dir, and its loop 'files_iter from entry k on: the model as the
\* call leaves it, and Ok or Err
RECURSIVE add_dir(_, _, _)
RECURSIVE files_iter(_, _, _, _)
files_iter(m, dir_path, entries, k) ==
    IF k > Len(entries) THEN [model |-> m, result |-> "Ok"]
    ELSE LET file == entries[k]
             file_path == Append(dir_path, k)
         IN IF file.kind \in {"entry_err", "type_err"}
            THEN [model |-> m, result |-> "Err"]
            ELSE IF file.kind = "dir"
            THEN LET sub == add_dir(m, file_path, file.dir) IN
                 IF sub.result = "Err" THEN sub
                 ELSE files_iter(sub.model, dir_path, entries, k + 1)
            ELSE IF file.modified = Missing
            THEN [model |-> m, result |-> "Err"]
            ELSE IF file.ext = NoExt
            THEN files_iter(m, dir_path, entries, k + 1)
            ELSE IF file.ext # "xhtml"
            THEN files_iter(m, dir_path, entries, k + 1)
            ELSE IF file.parsed = ParseErr
            THEN [model |-> m, result |-> "Err"]
            ELSE files_iter(add_doc(m, file_path, file.parsed, file.modified),
                            dir_path, entries, k + 1)

\* add_dir returning Ok(()) for a directory that fs::read_dir cannot read
add_dir_unreadable_ok(m, dir_path, dir) ==
    IF dir = Unreadable THEN [model |-> m, result |-> "Ok"]
    ELSE files_iter([m EXCEPT !.dirs = @ \cup {dir_path}], dir_path, dir.entries, 1)

add_dir(m, dir_path, dir) ==
    IF dir = Unreadable THEN [model |-> m, result |-> "Err"]
    ELSE files_iter([m EXCEPT !.dirs = @ \cup {dir_path}], dir_path, dir.entries, 1)

\* main: Model::new() and add_dir of the directory of the documents
AddDir ==
    /\ pc = "idle"
    /\ ~last_walk.called
    /\ \E dir \in Dirs(MaxDepth) :
          LET walk == add_dir(model, <<>>, dir) IN
          /\ model' = walk.model
          /\ last_walk' = [called |-> TRUE, dir |-> dir, result |-> walk.result]
    /\ UNCHANGED <<pc, invalid_paths, updated_paths, last_call, load>>
    /\ UNCHANGED query_vars

WalkNext == AddDir

SpecWalk == Init /\ [][WalkNext]_vars

(***************************************************************************)
(* The counting claims.                                                    *)
(***************************************************************************)
\* idf's counter of a term, a missing entry read as 0
IdfCount(m, t) == IF t \in DOMAIN m.idf THEN m.idf[t] ELSE 0

\* the terms a model knows, in idf or in a document
AllTerms(m) == DOMAIN m.idf \cup UNION {DOMAIN m.tfi[p].tf : p \in DOMAIN m.tfi}

\* a and b, models or Counters, agree on num_docs and on every term's counter
SameCounters(a, b) ==
    /\ a.num_docs = b.num_docs
    /\ \A t \in DOMAIN a.idf \cup DOMAIN b.idf : IdfCount(a, t) = IdfCount(b, t)

\* C1: in every reachable state, load_from_file's steps included, each term's
\* idf counter (a missing entry read as 0) is the number of indexed documents
\* whose tf table contains the term.
C1_IdfCountsDocuments ==
    \A t \in AllTerms(model) :
        IdfCount(model, t) =
            Cardinality({p \in DOMAIN model.tfi : t \in DOMAIN model.tfi[p].tf})

\* C1's case: load_from_file is at work on an index in which one term is in two
\* documents and another term's counter has dropped back to 0
C1_Witness ==
    /\ pc = "update"
    /\ \E t \in DOMAIN model.idf : model.idf[t] = 2
    /\ \E t \in DOMAIN model.idf : model.idf[t] = 0

\* C2: in every reachable state num_docs is the number of entries of tfi.
C2_NumDocsIsSize == model.num_docs = Cardinality(DOMAIN model.tfi)

\* C2's case: add_doc has just been called on a path that was already indexed
C2_Witness ==
    /\ last_call.op = "add_doc"
    /\ last_call.known
    /\ model.num_docs = 2

\* C3 as claimed: for any path, add_doc followed immediately by remove_doc of
\* the same path restores idf and num_docs to their values before the add_doc.
C3_RoundTripAnyPath ==
    [][(/\ last_call.op = "add_doc"
        /\ last_call'.op = "remove_doc"
        /\ last_call'.path = last_call.path)
       => SameCounters(model', last_call.pre)]_vars

\* C3 as amended: for a path that is not indexed, add_doc followed immediately
\* by remove_doc of that path restores idf and num_docs to their values before
\* the add_doc.
C3_RoundTripNewPath ==
    [][(/\ last_call.op = "add_doc"
        /\ ~last_call.known
        /\ last_call'.op = "remove_doc"
        /\ last_call'.path = last_call.path)
       => SameCounters(model', last_call.pre)]_vars

\* C3's case: remove_doc has just followed the add_doc of a path that was not
\* indexed, beside another document, and a counter is back to 0
C3_Witness ==
    /\ last_call.op = "remove_doc"
    /\ last_call.after = "insert"
    /\ model.num_docs = 1
    /\ \E t \in DOMAIN model.idf : model.idf[t] = 0 /\ last_call.pre.idf[t] = 1

\* C4: add_doc called a second time in a row with the same path, content and
\* time leaves idf and num_docs as the first call left them.
C4_ReAddKeepsCounters ==
    [][(/\ last_call.op = "add_doc"
        /\ last_call'.op = "add_doc"
        /\ last_call'.path = last_call.path
        /\ last_call'.content = last_call.content
        /\ last_call'.time = last_call.time)
       => SameCounters(model', model)]_vars

\* C4's case: the second of two identical add_doc calls has just run, on an
\* index with another document sharing a term with it
C4_Witness ==
    /\ last_call.op = "add_doc"
    /\ last_call.after = "same"
    /\ \E t \in DOMAIN model.idf : model.idf[t] = 2


(***************************************************************************)
(* The dispatch of longer requests: process_query on the empty index, for  *)
(* more terms and threads than SpecQuery has, its threads interleaved with *)
(* the spawn loop and the join loop as in SpecQuery.                       *)
(***************************************************************************)
MaxTasks == 7
MaxWorkers == 5

DispatchInit ==
    /\ model = NewModel
    /\ IndexIdle
    /\ request_text \in {JoinWords([k \in 1..n |-> <<"b">>]) : n \in 0..MaxTasks}
    /\ threads_count \in 0..MaxWorkers
    /\ qpc = "start"
    /\ request = <<>>
    /\ dispatched = <<>>
    /\ threads = <<>>
    /\ result_threads = <<>>
    /\ results = <<>>
    /\ i = 0
    /\ result_thread = 0
    /\ libm_log10 = ExactBuild

SpecDispatch == DispatchInit /\ [][QueryNext]_vars

(***************************************************************************)
(* The query claims.                                                       *)
(***************************************************************************)
\* the results of a thread that runs all of terms: the loop of the closure
RECURSIVE chunk_result(_, _, _)
chunk_result(m, terms, acc) ==
    IF terms = <<>> THEN acc
    ELSE chunk_result(m, Tail(terms), combine_results(acc, process_query_term(m, Head(terms))))

\* the join loop over the first n tasks of d, last first, every thread completing
RECURSIVE merge_chunks(_, _, _, _, _)
merge_chunks(m, terms, d, n, acc) ==
    IF n = 0 THEN acc
    ELSE merge_chunks(m, terms, d, n - 1,
            combine_results(acc, chunk_result(m, thread_terms(terms, d[n][1], d[n][2]), <<>>)))

\* what process_query returns for the terms when every thread completes
query_result(m, terms, n_threads) ==
    LET d == dispatch_tasks(n_threads, Len(terms)).dispatched
    IN merge_chunks(m, terms, d, Len(d), <<>>)

\* the join loop over the first n threads, last first, with the threads as they ended
RECURSIVE merge_completed(_, _)
merge_completed(n, acc) ==
    IF n = 0 THEN acc
    ELSE merge_completed(n - 1,
            IF threads[n].status = "finished"
            THEN combine_results(acc,
                    chunk_result(model,
                        thread_terms(request, dispatched[n][1], dispatched[n][2]), <<>>))
            ELSE acc)

NoFailure == \A w \in DOMAIN threads : threads[w].status # "failed"

\* same documents, and scores no more than ulps units of the last place apart
Close(a, b, ulps) ==
    /\ DOMAIN a = DOMAIN b
    /\ \A doc \in DOMAIN a : UlpDistance(a[doc], b[doc]) <= ulps

\* the concatenation of the terms the first n threads were spawned with
RECURSIVE spawned_terms(_)
spawned_terms(n) ==
    IF n = 0 THEN <<>> ELSE spawned_terms(n - 1) \o threads[n].given

\* the sum of the charges of the first n tasks
RECURSIVE charges(_)
charges(n) ==
    IF n = 0 THEN 0 ELSE charges(n - 1) + dispatched[n][2]

\* C5, as stated: process_query on a request without terms, whatever
\* threads_count, returns normally with an empty result, having spawned no
\* thread.  The code divides by zero in dispatch_tasks instead.
C5_EmptyQueryReturnsEmpty ==
    (split_whitespace(request_text) = <<>> /\ qpc # "start")
        => /\ qpc # "panicked"
           /\ threads = <<>>
           /\ results = <<>>

\* C6: when the request has at least one term and threads_count is at least 1,
\* the chunks of dispatch_tasks partition the positions of the request: the
\* first starts at 0, each next one starts where the one before it ends, the
\* charges sum to the number of terms, there are clamp(threads_count, 1, terms)
\* of them, and the threads spawned are given, in order, each term exactly
\* once.  This holds from the end of the spawn loop on, whatever the threads
\* have done of their terms since; during the spawn loop the threads spawned
\* so far are given the first terms of the request, up to the start of the
\* next chunk.
C6_ChunksPartition ==
    /\ (qpc \in {"spawn", "join", "joining", "returned"}
           /\ Len(request) >= 1 /\ threads_count >= 1)
          => /\ Len(dispatched) = Min(Max(threads_count, 1), Len(request))
             /\ dispatched[1][1] = 0
             /\ \A k \in 2..Len(dispatched) :
                   dispatched[k][1] = dispatched[k - 1][1] + dispatched[k - 1][2]
             /\ charges(Len(dispatched)) = Len(request)
             /\ spawned_terms(Len(threads)) = SubSeq(request, 1, charges(Len(threads)))
    /\ (qpc \in {"join", "joining", "returned"}
           /\ Len(request) >= 1 /\ threads_count >= 1)
          => /\ Len(threads) = Len(dispatched)
             /\ spawned_terms(Len(threads)) = request

\* C6's case: seven terms on three threads, three, two and two, and the first
\* thread has gone through its terms while the spawn loop is not left yet
C6_Witness ==
    /\ qpc = "spawn"
    /\ Len(request) = 7
    /\ threads_count = 3
    /\ Len(threads) = 3
    /\ Len(threads[1].given) = 3
    /\ Len(threads[3].given) = 2
    /\ threads[1].terms = <<>>

\* C7, as stated: with at least one term and no thread failing, what the
\* multi-threaded process_query returns is exactly the map of the sequential
\* single pass over the same terms.
C7_ExactlySequential ==
    (qpc = "returned" /\ NoFailure /\ Len(request) >= 1)
        => results = sequential_process_query(model, request_text)

\* C7, amended: with at least one term and no thread failing, the
\* multi-threaded process_query returns the documents of the sequential single
\* pass, each with a score that is the sequential score up to the rounding of
\* the f32 additions, no more than two units of the last place per term apart;
\* the two maps are equal when the request has at most two terms or
\* threads_count is at most 1.
C7_SequentialUpToRounding ==
    (qpc = "returned" /\ NoFailure /\ Len(request) >= 1)
        => LET sequential == sequential_process_query(model, request_text) IN
           /\ Close(results, sequential, 2 * Len(request))
           /\ (Len(request) <= 2 \/ threads_count <= 1) => results = sequential

C7_Witness ==
    /\ qpc = "returned"
    /\ NoFailure
    /\ Len(threads) = 3
    /\ \E doc \in DOMAIN results :
          /\ results[doc] # sequential_process_query(model, request_text)[doc]
          /\ UlpDistance(results[doc], sequential_process_query(model, request_text)[doc]) = 1

\* C8, as stated: process_query returns, for every permutation of the terms of
\* the request, the same documents with the same scores.
C8_PermutationSameScores ==
    (qpc = "returned" /\ NoFailure)
        => \A order \in Permutations(DOMAIN request) :
              results = query_result(model, [k \in DOMAIN request |-> request[order[k]]],
                                     threads_count)

\* C8, amended: process_query returns, for every permutation of the terms of
\* the request, the same documents, with scores equal up to the rounding of the
\* f32 additions, no more than two units of the last place per term apart, and
\* equal when the request has at most two terms.
C8_PermutationUpToRounding ==
    (qpc = "returned" /\ NoFailure)
        => \A order \in Permutations(DOMAIN request) :
              LET permuted == query_result(model,
                                  [k \in DOMAIN request |-> request[order[k]]],
                                  threads_count)
              IN /\ Close(results, permuted, 2 * Len(request))
                 /\ Len(request) <= 2 => results = permuted

C8_Witness ==
    /\ qpc = "returned"
    /\ NoFailure
    /\ Len(request) = 3
    /\ request[1] # request[3]
    /\ \E doc \in DOMAIN results :
          results[doc] # query_result(model, <<request[3], request[2], request[1]>>,
                                      threads_count)[doc]

\* C9: a thread that fails does not make process_query fail, and what
\* process_query returns is the merge, last thread first, of the results of the
\* threads that completed, each over all its terms; nothing of a failed thread
\* is in it.
C9_FailedWorkerDropped ==
    /\ (\E w \in DOMAIN threads : threads[w].status = "failed") => qpc # "panicked"
    /\ qpc = "returned" => results = merge_completed(Len(threads), <<>>)

C9_Witness ==
    /\ qpc = "returned"
    /\ \E w \in DOMAIN threads :
          /\ threads[w].status = "failed"
          /\ threads[w].results # <<>>
    /\ \E w \in DOMAIN threads :
          /\ threads[w].status = "finished"
          /\ threads[w].results # <<>>

(***************************************************************************)
(* The walk claim.                                                         *)
(***************************************************************************)
\* the files below a directory, each with its path
RECURSIVE walk_files(_, _)
walk_files(dir_path, dir) ==
    IF dir = Unreadable THEN {}
    ELSE UNION {LET entry == dir.entries[k] IN
                IF entry.kind = "file" THEN {[path |-> Append(dir_path, k), file |-> entry]}
                ELSE IF entry.kind = "dir" THEN walk_files(Append(dir_path, k), entry.dir)
                ELSE {} : k \in DOMAIN dir.entries}

\* nothing below the directory fails but, possibly, parse_xml_file
RECURSIVE only_extraction_fails(_)
only_extraction_fails(dir) ==
    /\ dir # Unreadable
    /\ \A k \in DOMAIN dir.entries :
          LET entry == dir.entries[k] IN
          /\ entry.kind \notin {"entry_err", "type_err"}
          /\ entry.kind = "file" => entry.modified # Missing
          /\ entry.kind = "dir" => only_extraction_fails(entry.dir)

\* C10, as stated: when the only failures of a walk are failures of
\* parse_xml_file, add_dir returns Ok and has indexed every xhtml file that
\* parse_xml_file could read, and none of the others.  The code returns Err at
\* the first file that parse_xml_file fails on and leaves the rest of the walk
\* undone.
C10_ExtractionFailureSkips ==
    (last_walk.called /\ only_extraction_fails(last_walk.dir))
        => /\ last_walk.result = "Ok"
           /\ DOMAIN model.tfi =
                 {f.path : f \in {g \in walk_files(<<>>, last_walk.dir) :
                                     g.file.ext = "xhtml" /\ g.file.parsed # ParseErr}}

(***************************************************************************)
(* The claims on load_from_file.  They are read where load_from_file is    *)
(* about to return the model: its loops are over.                          *)
(***************************************************************************)
\* load_from_file is about to return
Returning == pc = "update" /\ updated_paths = <<>>

\* the paths of the persisted index whose file was missing at the scan
MissingPaths == {p \in DOMAIN load.metadata : load.metadata[p] = Missing}

\* the paths whose file was there with another time than the stored one
ScheduledPaths ==
    {p \in DOMAIN load.metadata :
        /\ load.metadata[p] # Missing
        /\ load.metadata[p] # load.persisted.tfi[p].last_modified}

\* the paths whose update has been gone through, and what parse_xml_file returned
ParsedPaths == {load.parsed[k].path : k \in DOMAIN load.parsed}

ParsedOf(p) ==
    load.parsed[CHOOSE k \in DOMAIN load.parsed : load.parsed[k].path = p].parsed

\* C11: once the loop over invalid_paths is over, and so when load_from_file
\* returns, no path whose file was missing at the scan is in the index; right
\* after that loop the index is the persisted one without these documents:
\* num_docs is lower by their number and the idf of each term is lower by the
\* number of them that held the term.
C11_MissingFilesRemoved ==
    /\ pc = "update" => DOMAIN model.tfi \cap MissingPaths = {}
    /\ (pc = "update" /\ load.parsed = <<>>)
          => /\ model.tfi = [p \in DOMAIN load.persisted.tfi \ MissingPaths |->
                                load.persisted.tfi[p]]
             /\ model.num_docs = load.persisted.num_docs - Cardinality(MissingPaths)
             /\ model.idf =
                   [t \in DOMAIN load.persisted.idf |->
                       load.persisted.idf[t]
                         - Cardinality({p \in MissingPaths :
                                           t \in DOMAIN load.persisted.tfi[p].tf})]

C11_Witness ==
    /\ Returning
    /\ MissingPaths # {}
    /\ \E t \in DOMAIN load.persisted.idf :
          /\ load.persisted.idf[t] = 2
          /\ model.idf[t] = 1
          /\ \E p \in MissingPaths : t \in DOMAIN load.persisted.tfi[p].tf

\* the entry of a document indexed from a content at a time
EntryOf(content, last_modified) ==
    LET counted == count_terms(content, <<>>, 0)
    IN [tf |-> counted.tf, terms_count |-> counted.terms_count,
        last_modified |-> last_modified]

\* what the history of the load says the table of documents is during the update
\* loop: the persisted entries of the paths that were not missing, with the
\* entry of the new content and time for each path that parsed since
AfterLoad ==
    [p \in DOMAIN load.persisted.tfi \ MissingPaths |->
        IF p \in ParsedPaths /\ ParsedOf(p) # ParseErr
        THEN EntryOf(ParsedOf(p), load.metadata[p])
        ELSE load.persisted.tfi[p]]

\* the number of the documents of AfterLoad that hold the term
HoldersAfterLoad(t) ==
    Cardinality({p \in DOMAIN AfterLoad : t \in DOMAIN AfterLoad[p].tf})

\* C12: when load_from_file returns, every document whose file was there with
\* another time than the stored one and whose parse_xml_file succeeded has the
\* entry of the new content with the new time, its terms counted in idf, and
\* every document whose file was there with the stored time has its persisted
\* entry.
C12_StaleDocumentsReindexed ==
    Returning =>
        \A p \in DOMAIN load.metadata \ MissingPaths :
            IF p \in ScheduledPaths
            THEN /\ p \in ParsedPaths
                 /\ ParsedOf(p) # ParseErr
                       => /\ p \in DOMAIN model.tfi
                          /\ model.tfi[p] = EntryOf(ParsedOf(p), load.metadata[p])
                          /\ \A t \in DOMAIN EntryOf(ParsedOf(p), load.metadata[p]).tf :
                                /\ t \in DOMAIN model.idf
                                /\ model.idf[t] = HoldersAfterLoad(t)
            ELSE /\ p \in DOMAIN model.tfi
                 /\ model.tfi[p] = load.persisted.tfi[p]

C12_Witness ==
    /\ Returning
    /\ \E p \in ScheduledPaths :
          /\ ParsedOf(p) # ParseErr
          /\ model.tfi[p].tf # load.persisted.tfi[p].tf
          /\ model.tfi[p].last_modified = 2
          /\ load.persisted.tfi[p].last_modified = 1
    /\ \E q \in DOMAIN load.metadata \ (MissingPaths \cup ScheduledPaths) :
          model.tfi[q].terms_count > 0

\* C13: in the update loop of load_from_file, a document whose parse_xml_file
\* failed keeps its persisted entry (tf, terms_count, last_modified) and stays
\* counted in num_docs and in the idf of its terms: the counter of each term of
\* the persisted entry is the number of documents that hold the term by the
\* history of the load, the failed document with its persisted entry among
\* them, and no counter of idf is anything else.  The loop goes on: every
\* scheduled path is gone through, and one that parses after another failed
\* has its new time stored.
C13_FailedUpdateKeepsEntry ==
    pc = "update" =>
        /\ \A p \in ParsedPaths :
              IF ParsedOf(p) = ParseErr
              THEN /\ p \in DOMAIN model.tfi
                   /\ model.tfi[p] = load.persisted.tfi[p]
                   /\ \A t \in DOMAIN load.persisted.tfi[p].tf :
                         /\ t \in DOMAIN model.idf
                         /\ model.idf[t] = HoldersAfterLoad(t)
                         /\ model.idf[t] >= 1
              ELSE model.tfi[p].last_modified = load.metadata[p]
        /\ \A t \in DOMAIN model.idf : model.idf[t] = HoldersAfterLoad(t)
        /\ model.num_docs = load.persisted.num_docs - Cardinality(MissingPaths)
        /\ model.num_docs = Cardinality(DOMAIN AfterLoad)
        /\ ParsedPaths \cup {updated_paths[k][2] : k \in DOMAIN updated_paths}
              = ScheduledPaths
        /\ ParsedPaths \cap {updated_paths[k][2] : k \in DOMAIN updated_paths} = {}

C13_Witness ==
    /\ Returning
    /\ Len(load.parsed) = 2
    /\ load.parsed[1].parsed = ParseErr
    /\ load.parsed[2].parsed # ParseErr
    /\ load.persisted.tfi[load.parsed[1].path].terms_count > 0
    /\ model.tfi[load.parsed[2].path] # load.persisted.tfi[load.parsed[2].path]

(***************************************************************************)
(* The claims on the entries of a QueryResult.                             *)
(***************************************************************************)
\* every entry of a QueryResult has a score above 0 and a document that holds
\* one of the terms, cleaned
Sparse(result, terms) ==
    \A doc \in DOMAIN result :
        /\ result[doc].m > 0
        /\ doc \in DOMAIN model.tfi
        /\ \E k \in DOMAIN terms : clean_term(terms[k]) \in DOMAIN model.tfi[doc].tf

\* C14: at every point of process_query, every entry of the results of each
\* thread and of the merged results has a score strictly above 0 and belongs
\* to an indexed document that holds at least one term of the request; a
\* document that holds none of them is in no result.
C14_OnlyPositiveMatches ==
    /\ Sparse(results, request)
    /\ \A w \in DOMAIN threads : Sparse(threads[w].results, request)
    /\ \A k \in DOMAIN request : Sparse(process_query_term(model, request[k]), <<request[k]>>)

C14_Witness ==
    /\ qpc = "returned"
    /\ results # <<>>
    /\ \E doc \in DOMAIN model.tfi \ DOMAIN results : model.tfi[doc].terms_count > 0
    /\ \E k \in DOMAIN request : process_query_term(model, request[k]) = <<>>

\* no indexed document holds the term
Absent(raw_term) ==
    \A doc \in DOMAIN model.tfi : clean_term(raw_term) \notin DOMAIN model.tfi[doc].tf

\* C15: for a term of the request that no indexed document holds, whether idf
\* has no entry for it or an entry that went back to 0, process_query_term
\* returns an empty QueryResult and looks into the table of no document; a
\* request made of such terms only returns an empty result.
C15_AbsentTermEmpty ==
    /\ \A k \in DOMAIN request :
          Absent(request[k])
             => /\ process_query_term(model, request[k]) = <<>>
                /\ scanned_paths(model, request[k]) = {}
    /\ (qpc = "returned" /\ \A k \in DOMAIN request : Absent(request[k]))
          => results = <<>>

C15_Witness ==
    /\ qpc = "returned"
    /\ model.num_docs > 0
    /\ \E k \in DOMAIN request :
          /\ clean_term(request[k]) \in DOMAIN model.idf
          /\ model.idf[clean_term(request[k])] = 0
    /\ \E k \in DOMAIN request : clean_term(request[k]) \notin DOMAIN model.idf
    /\ \A k \in DOMAIN request : Absent(request[k])

(***************************************************************************)
(* The claim on the term tables.                                           *)
(***************************************************************************)
\* the sum of the counts of a tf table
RECURSIVE SumCounts(_)
SumCounts(tf) ==
    IF DOMAIN tf = {} THEN 0
    ELSE LET t == CHOOSE x \in DOMAIN tf : TRUE
         IN tf[t] + SumCounts(MapDel(tf, t))

\* C16: in every state, for every indexed document, the counts of its tf table
\* sum to its terms_count, every count is at least 1, and a document without
\* tokens has terms_count 0 and an empty table.
C16_TfSumsToTermsCount ==
    \A doc \in DOMAIN model.tfi :
        /\ SumCounts(model.tfi[doc].tf) = model.tfi[doc].terms_count
        /\ \A t \in DOMAIN model.tfi[doc].tf : model.tfi[doc].tf[t] >= 1
        /\ model.tfi[doc].terms_count = 0 <=> model.tfi[doc].tf = <<>>

C16_Witness ==
    /\ pc = "update"
    /\ \E doc \in DOMAIN model.tfi :
          /\ model.tfi[doc].terms_count = 4
          /\ \E t \in DOMAIN model.tfi[doc].tf : model.tfi[doc].tf[t] = 3
    /\ \E doc \in DOMAIN model.tfi : model.tfi[doc].terms_count = 0

(***************************************************************************)
(* The claim on the sizes of the chunks.                                   *)
(***************************************************************************)
\* C17: when the request has at least one term, whatever threads_count from 0
\* up, dispatch_tasks returns n = min(max(threads_count, 1), terms) chunks; the
\* first terms % n of them have terms / n + 1 terms and the others terms / n;
\* every chunk has at least one term, and so has every thread when it is
\* spawned, of which it later holds a suffix.
C17_ChunkSizes ==
    (qpc \in {"spawn", "join", "joining", "returned"} /\ Len(request) >= 1)
        => LET n == Min(Max(threads_count, 1), Len(request))
               base == Len(request) \div n
               r == Len(request) % n
           IN /\ Len(dispatched) = n
              /\ \A k \in 1..n :
                    /\ dispatched[k][2] = IF k <= r THEN base + 1 ELSE base
                    /\ dispatched[k][2] >= 1
              /\ \A w \in DOMAIN threads :
                    /\ Len(threads[w].given) = dispatched[w][2]
                    /\ Len(threads[w].given) >= 1
                    /\ Len(threads[w].terms) <= Len(threads[w].given)
                    /\ threads[w].terms =
                          SubSeq(threads[w].given,
                                 Len(threads[w].given) - Len(threads[w].terms) + 1,
                                 Len(threads[w].given))

\* C17's case: seven terms on five threads, two, two, one, one and one, a
\* thread at work on its terms while the spawn loop is not left yet
C17_Witness ==
    /\ qpc = "spawn"
    /\ Len(request) = 7
    /\ threads_count = 5
    /\ Len(threads) = 5
    /\ Len(threads[2].given) = 2
    /\ Len(threads[3].given) = 1
    /\ Len(threads[2].terms) = 1
    /\ threads[5].status = "running"

(***************************************************************************)
(* The claim on the joins.                                                 *)
(***************************************************************************)
\* C18, as stated: process_query does not return while a thread it spawned is
\* running or not joined, or while the results of a completed thread are not
\* merged; and, its threads all ending, it returns in the end.  The call on a
\* request without terms has no thread to wait for and never returns: it
\* panics in dispatch_tasks.
C18_ReturnsAfterJoins ==
    /\ [](qpc = "returned"
            => /\ Len(threads) = Len(dispatched)
               /\ \A w \in DOMAIN threads : threads[w].status # "running"
               /\ result_threads = <<>>
               /\ result_thread = 0
               /\ results = merge_completed(Len(threads), <<>>))
    /\ <>(qpc = "returned")

\* process_query on a request with at least one term: the same, and the call
\* returns in the end
C18_ReturnsAfterJoinsWithTerms ==
    /\ [](qpc = "returned"
            => /\ Len(threads) = Len(dispatched)
               /\ \A w \in DOMAIN threads : threads[w].status # "running"
               /\ result_threads = <<>>
               /\ result_thread = 0
               /\ results = merge_completed(Len(threads), <<>>))
    /\ (split_whitespace(request_text) # <<>>) => <>(qpc = "returned")

(***************************************************************************)
(* The claim on what a load leaves alone.                                  *)
(***************************************************************************)
\* C19: all along load_from_file, and so when it returns, the paths of the
\* index are paths of the persisted index and dirs is the persisted dirs: a
\* path that the persisted index does not hold is not indexed by the load.
C19_LoadAddsNoPath ==
    pc # "idle"
        => /\ DOMAIN model.tfi \subseteq DOMAIN load.persisted.tfi
           /\ model.dirs = load.persisted.dirs
           /\ \A k \in DOMAIN updated_paths :
                 updated_paths[k][2] \in DOMAIN load.persisted.tfi
           /\ \A k \in DOMAIN invalid_paths :
                 invalid_paths[k] \in DOMAIN load.persisted.tfi

C19_Witness ==
    /\ Returning
    /\ Paths \ DOMAIN load.persisted.tfi # {}
    /\ \E k \in DOMAIN load.parsed :
          /\ load.parsed[k].parsed # ParseErr
          /\ model.tfi[load.parsed[k].path] # load.persisted.tfi[load.parsed[k].path]

\* what a walk meets below a directory, in the order of the walk: for each
\* directory that cannot be read, each entry that is not a directory, its path
\* and whether an I/O operation fails on it
RECURSIVE walk_order(_, _)
RECURSIVE entries_order(_, _, _)
entries_order(dir_path, entries, k) ==
    IF k > Len(entries) THEN <<>>
    ELSE LET entry == entries[k]
             path == Append(dir_path, k)
         IN (IF entry.kind = "dir" THEN walk_order(path, entry.dir)
             ELSE <<[path |-> path,
                     io_fails |-> IF entry.kind = "file"
                                  THEN entry.modified = Missing
                                  ELSE TRUE]>>)
            \o entries_order(dir_path, entries, k + 1)

walk_order(dir_path, dir) ==
    IF dir = Unreadable THEN <<[path |-> dir_path, io_fails |-> TRUE]>>
    ELSE entries_order(dir_path, dir.entries, 1)

\* C20: when fs::read_dir, an entry, its file_type or its metadata fails
\* somewhere below the directory walked, add_dir returns Err to main, through
\* every add_dir in between, and nothing is indexed from the first failure on:
\* the documents of the index were all met before it.
C20_IoFailureAbortsWalk ==
    LET met == walk_order(<<>>, last_walk.dir)
        failures == {k \in DOMAIN met : met[k].io_fails}
    IN (last_walk.called /\ failures # {})
          => LET first == CHOOSE k \in failures : \A j \in failures : k <= j
             IN /\ last_walk.result = "Err"
                /\ DOMAIN model.tfi \subseteq {met[j].path : j \in 1..(first - 1)}

C20_Witness ==
    /\ last_walk.called
    /\ last_walk.result = "Err"
    /\ last_walk.dir # Unreadable
    /\ Len(last_walk.dir.entries) = 2
    /\ last_walk.dir.entries[1].kind = "dir"
    /\ last_walk.dir.entries[1].dir # Unreadable
    /\ Len(last_walk.dir.entries[1].dir.entries) = 2
    /\ last_walk.dir.entries[1].dir.entries[2].kind = "type_err"
    /\ last_walk.dir.entries[2].kind = "file"
    /\ last_walk.dir.entries[2].ext = "xhtml"
    /\ last_walk.dir.entries[2].parsed = <<"A", ".", "b">>
    /\ last_walk.dir.entries[2].modified = 1
    /\ DOMAIN model.tfi = {<<1, 1>>}

(***************************************************************************)
(* The claim on the unsigned counters.                                     *)
(***************************************************************************)
\* C21: in every reachable state num_docs and every idf counter are at least
\* 0, and for every indexed document, the ones remove_doc can take out,
\* num_docs is above 0 and every term of its tf table has an idf entry above
\* 0: "self.num_docs -= 1" and "*count -= 1" never run on a 0 and the
\* "if let Some(count)" of remove_doc never misses.
C21_CountersNeverUnderflow ==
    /\ model.num_docs >= 0
    /\ \A t \in DOMAIN model.idf : model.idf[t] >= 0
    /\ \A p \in DOMAIN model.tfi :
          /\ model.num_docs > 0
          /\ \A t \in DOMAIN model.tfi[p].tf :
                t \in DOMAIN model.idf /\ model.idf[t] > 0

\* C21's case: remove_doc has taken out the last document, just added: num_docs
\* and the counter of one of its terms went from 1 to 0
C21_Witness ==
    /\ last_call.op = "remove_doc"
    /\ last_call.known
    /\ last_call.pre.num_docs = 1
    /\ model.num_docs = 0
    /\ \E t \in DOMAIN model.idf :
          /\ last_call.pre.idf[t] = 1
          /\ model.idf[t] = 0
    /\ last_call.after = "insert"

(***************************************************************************)
(* The claim on the terms that every document holds.                       *)
(***************************************************************************)
\* at least one document is indexed and each indexed document holds the term
InEveryDocument(raw_term) ==
    /\ DOMAIN model.tfi # {}
    /\ \A doc \in DOMAIN model.tfi : clean_term(raw_term) \in DOMAIN model.tfi[doc].tf

\* C22: a term that every indexed document holds has a document frequency
\* equal to num_docs and an idf of 0; process_query_term returns for it what
\* it returns for an absent term, an empty QueryResult, without looking into
\* the table of any document; a request made of such terms only returns an
\* empty result.
C22_UbiquitousTermScoresNothing ==
    /\ \A raw_term \in RawTerms :
          InEveryDocument(raw_term)
             => /\ clean_term(raw_term) \in DOMAIN model.idf
                /\ model.idf[clean_term(raw_term)] = model.num_docs
                /\ get_idf(model, clean_term(raw_term)) = F32Zero
                /\ process_query_term(model, raw_term) = <<>>
                /\ scanned_paths(model, raw_term) = {}
    /\ (qpc = "returned" /\ \A k \in DOMAIN request : InEveryDocument(request[k]))
          => results = <<>>

\* C22's case: a query has returned on an index of two documents, its terms
\* all held by both of them
C22_Witness ==
    /\ qpc = "returned"
    /\ model.num_docs = 2
    /\ request # <<>>
    /\ \A k \in DOMAIN request : InEveryDocument(request[k])
    /\ \E doc \in DOMAIN model.tfi :
          get_tf_doc(model, doc, clean_term(request[1])) # F32Zero

\* C22's other case: the same on an index of one document
C22_WitnessOneDocument ==
    /\ qpc = "returned"
    /\ model.num_docs = 1
    /\ request # <<>>
    /\ \A k \in DOMAIN request : InEveryDocument(request[k])

====
